---- MODULE Spec2Model ----
(***************************************************************************)
(* Model of the grid path walker of nbs/04_gridworld_locations.ipynb:      *)
(* PathWalker (the second, final definition of the class), the helpers it  *)
(* calls (random_edge_points, distance) and MapItem.add_to_map.            *)
(*                                                                         *)
(* A point is a pair <<x, y>>.  The grid is a function row -> column ->    *)
(* value with rows 0..height-1 and columns 0..width-1, as the numpy array  *)
(* np.zeros((height, width)) is.                                           *)
(*                                                                         *)
(* Distances.  The code computes the Minkowski distance                    *)
(* (|dx|^p + |dy|^p)^(1/p) in floating point and uses it in three ways: it *)
(* compares it with 1, it compares two distances, and it divides it by     *)
(* target_distance_per_step and takes the ceiling.  On integer points all  *)
(* three are decided by the integer |dx|^p + |dy|^p, which is what         *)
(* distance() returns here; target_distance_per_step is a rational         *)
(* <<numerator, denominator>> (0.6 is <<3, 5>>).                           *)
(***************************************************************************)
EXTENDS Integers, Sequences, FiniteSets

\* ---- bounds of the model ------------------------------------------------
MaxWidth == 3
MaxHeight == 3
MaxCoord == 2
MaxSteps == 4
MaxPaints == 1
MaxWalks == 2
MaxChildren == 1
MaxCalls == 2
MaxGenerates == 2

\* ---- input sets -----------------------------------------------------------
None == <<>>
PyNone == "None"
Exponents == {1, 2}
InvalidExponents == {0}
StepTargets == {<<3, 5>>, <<2, 1>>}
FillValues == {1, 2}
SuppliedPoints == (0..MaxCoord) \X (0..MaxCoord)
ExamplePaths == {<< <<0, 0>>, <<1, 0>>, <<1, 1>> >>}
LocationNames == {"region", "city", "cellar"}
Messages == {"look around", "attack"}
Responses == {"you see a door", "you hit"}
Users == {"player", "dm"}
ItemClasses == {"Item", "Weapon", "RangeWeapon"}
DiceRolls == {1, 8, 9, 15, 16, 19, 20}

VARIABLES
    grid,               \* self.grid
    width,              \* self.width  = grid.shape[1]
    height,             \* self.height = grid.shape[0]
    p1,                 \* self.p1, the start point
    p2,                 \* self.p2, the end point
    p,                  \* self.p, the distance exponent
    target_distance_per_step,
    path,               \* self.path
    sampled,            \* TRUE iff the constructor sampled the endpoints
    pc,                 \* "idle", "walking", "returned", "raised"
    x, y,               \* walk()'s current cell
    current_num_steps,  \* walk()'s step counter
    target_num_steps,   \* walk()'s step budget
    prob,               \* numerator of the last P(decrease); the
                        \* denominator is target_num_steps
    mode,               \* the last Bernoulli draw: "decrease", "increase"
    fill_value,         \* the fill_value argument of the last walk()
    ret,                \* the path walk() returned, None before
    err,                \* the exception a call raised, or "none"
    world,              \* GridWorld.grid, the target of MapItem.add_to_map
    painted,            \* the path of the last paint call
    painter,            \* "add_to_grid", "add_to_map" or "none"
    paint_value,        \* the fill value the last paint call was to use
    num_paints,
    edges,              \* the positions in l = [left, bottom, right, top] of
                        \* the two sampled endpoints, None if supplied
    np_draw,            \* what the last loop iteration drew from np.random:
                        \* <<binomial outcome, np.random.choice index or 0>>
    py_draw,            \* the index random.choice drew in the last loop
                        \* iteration, 0 if it was not called
    num_walks,          \* the number of walk() calls so far
    path_id,            \* the identity of the list object self.path holds
    lists,              \* the contents of every list object made so far
    returned,           \* <<identity, contents when returned>> of the list
                        \* each walk() call returned
    \* the location tools
    locations,          \* the keys of the LocationStore locations
    current,            \* the name of locations.current
    children,           \* Location.children of every location, by name
    tool_op,            \* the last tool or method called, "none" before
    tool_arg,           \* its argument
    tool_ret,           \* what it returned: a location name, a message or
                        \* PyNone
    tool_err,           \* the exception it raised, or "none"
    \* the chat with the dungeon master
    log,                \* the entries of the adventure log: <<text, user>>
    chat_history,       \* the (message, response) pairs of the chat window
    calls,              \* the msg() calls that returned, in call order:
                        \* <<message, user, response, "msg" or "respond">>
    num_failed,         \* the number of msg() calls agent.chat made raise
    \* Item.generate, Weapon.generate, RangeWeapon.generate
    gen_pc,             \* "idle", "running", "returned", "raised"
    gen_cls,            \* the class generate was called on
    gen_rarity_arg,     \* the rarity argument, PyNone if not supplied
    gen_rarity,         \* the rarity the last attempt used
    gen_attempt,        \* the number of attempts started by this call
    gen_llm_calls,      \* the number of times this call ran the program
    gen_rolls,          \* the number of times this call rolled the dice
    num_generates       \* the number of generate calls so far

vars == <<grid, width, height, p1, p2, p, target_distance_per_step, path,
          sampled, pc, x, y, current_num_steps, target_num_steps, prob, mode,
          fill_value, ret, err, world, painted, painter, paint_value,
          num_paints, edges, np_draw, py_draw, num_walks, path_id, lists,
          returned, locations, current, children, tool_op, tool_arg,
          tool_ret, tool_err, log, chat_history, calls, num_failed, gen_pc,
          gen_cls, gen_rarity_arg, gen_rarity, gen_attempt, gen_llm_calls,
          gen_rolls, num_generates>>

walker_vars == <<grid, width, height, p1, p2, p, target_distance_per_step,
                 path, sampled, pc, x, y, current_num_steps,
                 target_num_steps, prob, mode, fill_value, ret, err, world,
                 painted, painter, paint_value, num_paints, edges, np_draw,
                 py_draw, num_walks, path_id, lists, returned>>

location_vars == <<locations, current, children, tool_op, tool_arg, tool_ret,
                   tool_err>>

chat_vars == <<log, chat_history, calls, num_failed>>

generate_vars == <<gen_pc, gen_cls, gen_rarity_arg, gen_rarity, gen_attempt,
                   gen_llm_calls, gen_rolls, num_generates>>


\* ---- arithmetic helpers ---------------------------------------------------
Abs(a) == IF a < 0 THEN -a ELSE a

Min(a, b) == IF a < b THEN a ELSE b

Max(a, b) == IF a > b THEN a ELSE b

RECURSIVE Pow(_, _)
Pow(b, e) == IF e = 0 THEN 1 ELSE b * Pow(b, e - 1)

\* distance(a, b, p) ^ p: the sum the Minkowski distance is the p-th root of
distance(a, b, pp) == Pow(Abs(a[1] - b[1]), pp) + Pow(Abs(a[2] - b[2]), pp)

\* np.ceil(d / tdps) for d = dp^(1/pp) and tdps = tq[1]/tq[2] > 0: the first
\* t = 0, 1, 2, ... with t * tdps >= d
RECURSIVE ceil_from(_, _, _, _)
ceil_from(t, dp, pp, tq) ==
    IF Pow(t * tq[1], pp) >= Pow(tq[2], pp) * dp
    THEN t
    ELSE ceil_from(t + 1, dp, pp, tq)

floor_div(dp, pp, tq) ==
    LET t == ceil_from(0, dp, pp, tq)
    IN  IF Pow(t * tq[1], pp) = Pow(tq[2], pp) * dp THEN t ELSE t - 1

ceil_div(dp, pp, tq) == ceil_from(0, dp, pp, tq)

\* np.argmin: the index of the first occurrence of the minimum
RECURSIVE argmin_from(_, _, _)
argmin_from(s, i, best) ==
    IF i > Len(s) THEN best
    ELSE IF s[i] < s[best] THEN argmin_from(s, i + 1, i)
    ELSE argmin_from(s, i + 1, best)

RECURSIVE argmin_last_from(_, _, _)
argmin_last_from(s, i, best) ==
    IF i > Len(s) THEN best
    ELSE IF s[i] <= s[best] THEN argmin_last_from(s, i + 1, i)
    ELSE argmin_last_from(s, i + 1, best)

argmin_last(s) == argmin_last_from(s, 2, 1)

argmin(s) == argmin_from(s, 2, 1)

Range(s) == {s[i] : i \in DOMAIN s}

\* ---- random_edge_points ---------------------------------------------------
\* np.random.randint(0, n) draws from 0..n-1 and raises ValueError if n <= 0
randint_ok(w, h) == w - 1 > 0 /\ h - 1 > 0

\* the lists l before the shuffle, one per outcome of the four draws
edge_lists(w, h) ==
    { << <<0, a>>, <<b, 0>>, <<w - 1, c>>, <<d, h - 1>> >> :
        <<a, b, c, d>> \in (0..(h - 2)) \X (0..(w - 2))
                           \X (0..(h - 2)) \X (0..(w - 2)) }

\* shuffle(l); l[:2]: the original positions of the two entries that end up
\* first, any two different positions
shuffle_first_two == { t \in (1..4) \X (1..4) : t[1] # t[2] }

\* the outcomes of one call: <<first point, second point, their positions
\* in l>>
random_edge_draws(w, h) ==
    { <<d[1][d[2][1]], d[1][d[2][2]], d[2]>> :
        d \in edge_lists(w, h) \X shuffle_first_two }

random_edge_points(w, h) ==
    { <<d[1], d[2]>> : d \in random_edge_draws(w, h) }

\* ---- PathWalker helpers ---------------------------------------------------
self_distance(c) == distance(c, p2, p)

adjacent_cells_diagonal(cx, cy) ==
    (IF cx > 0 THEN << <<cx - 1, cy>> >> ELSE <<>>)
    \o (IF cx < width - 1 THEN << <<cx + 1, cy>> >> ELSE <<>>)
    \o (IF cy > 0 THEN << <<cx, cy - 1>> >> ELSE <<>>)
    \o (IF cy < height - 1 THEN << <<cx + 1, cy + 1>> >> ELSE <<>>)

adjacent_cells_x_for_y(cx, cy) ==
    (IF cx > 0 THEN << <<cx - 1, cy>> >> ELSE <<>>)
    \o (IF cx < width - 1 THEN << <<cx + 1, cy>> >> ELSE <<>>)
    \o (IF cy > 0 THEN << <<cx, cy - 1>> >> ELSE <<>>)
    \o (IF cx < height - 1 THEN << <<cx, cy + 1>> >> ELSE <<>>)

adjacent_cells(cx, cy) ==
    (IF cx > 0 THEN << <<cx - 1, cy>> >> ELSE <<>>)
    \o (IF cx < width - 1 THEN << <<cx + 1, cy>> >> ELSE <<>>)
    \o (IF cy > 0 THEN << <<cx, cy - 1>> >> ELSE <<>>)
    \o (IF cy < height - 1 THEN << <<cx, cy + 1>> >> ELSE <<>>)

decrease_distance_to_end(cx, cy) == p2

decrease_distance_first(cx, cy) == adjacent_cells(cx, cy)[1]

decrease_distance(cx, cy) ==
    LET cells == adjacent_cells(cx, cy)
        distances == [i \in DOMAIN cells |-> self_distance(cells[i])]
    IN  cells[argmin(distances)]

increase_distance_any(cx, cy) ==
    LET cells == adjacent_cells(cx, cy)
    IN  { <<cells[i], 0, i>> : i \in DOMAIN cells }

\* the outcomes of _increase_distance: <<the cell returned, the position
\* np.random.choice drew in available_choices, the position random.choice
\* drew in adjacent_cells>>, positions counted from 1 and the draw that was
\* not made being 0
increase_distance(cx, cy) ==
    LET cells == adjacent_cells(cx, cy)
        IsFarther(c) == self_distance(c) > self_distance(<<cx, cy>>)
        available_choices == SelectSeq(cells, IsFarther)
    IN  IF available_choices # <<>>
        THEN { <<available_choices[i], i, 0>> :
                 i \in DOMAIN available_choices }
        ELSE { <<cells[i], 0, i>> : i \in DOMAIN cells }

\* the condition of walk()'s while loop
loop_condition_within_two(cx, cy) == self_distance(<<cx, cy>>) > 2

loop_condition(cx, cy) == self_distance(<<cx, cy>>) > 1

\* self.path = []: the name is bound to a new list object, which is empty
same_path_object == path_id

new_path_object == path_id + 1

reset_path_kept == path

reset_path == <<>>

\* the list objects after the object id has got the contents c
set_list(id, c) ==
    [i \in 1..Max(Len(lists), id) |-> IF i = id THEN c ELSE lists[i]]

\* the grid after walk() has put the cell c with fill_value v on its path:
\* walk() never writes to self.grid
walk_grid_filled(c, v) ==
    IF c[2] \in DOMAIN grid /\ c[1] \in DOMAIN grid[c[2]]
    THEN [grid EXCEPT ![c[2]][c[1]] = v]
    ELSE grid

walk_grid(c, v) == grid

\* x, y = self.p1
start_cell_origin == <<0, 0>>

start_cell == p1

\* return self.path
returned_path_with_end == Append(path, p2)

returned_path == path

\* numerator of max(0, min(1, (T - k) / T)) over the denominator T, T > 0
prob_never_zero(T, k) == Max(1, Min(T, T - k))

prob_should_decrease_distance(T, k) == Max(0, Min(T, T - k))

target_steps_default_exponent(a, b, pp, tq) ==
    ceil_div(distance(a, b, 2), 2, tq)

target_steps(a, b, pp, tq) == ceil_div(distance(a, b, pp), pp, tq)

\* ---- construction ---------------------------------------------------------
ZeroGrid(w, h) == [r \in 0..(h - 1) |-> [c \in 0..(w - 1) |-> 0]]

\* the endpoints __init__ stores, with the edge positions they were sampled
\* for: the supplied ones, or a sampled pair when either is missing; the
\* empty set when sampling raises
endpoints(w, h, a1, a2) ==
    IF a1 = None \/ a2 = None
    THEN IF randint_ok(w, h) THEN random_edge_draws(w, h) ELSE {}
    ELSE {<<a1, a2, None>>}

\* PathWalker(grid, p1, p2, p, target_distance_per_step) for a zero grid of
\* a shape in widths x heights and an exponent in exponents: the walker's
\* fields, or pc = "raised" when random_edge_points raised.  Nothing is
\* validated.
construct(widths, heights, exponents) ==
    /\ width \in widths
    /\ height \in heights
    /\ grid = ZeroGrid(width, height)
    /\ world = ZeroGrid(width, height)
    /\ p \in exponents
    /\ target_distance_per_step \in StepTargets
    /\ \E a1 \in SuppliedPoints \cup {None}, a2 \in SuppliedPoints \cup {None} :
          /\ sampled = (a1 = None \/ a2 = None)
          /\ IF endpoints(width, height, a1, a2) = {}
             THEN /\ p1 = None
                  /\ p2 = None
                  /\ edges = None
                  /\ pc = "raised"
                  /\ err = "ValueError"
             ELSE \E e \in endpoints(width, height, a1, a2) :
                      /\ p1 = e[1]
                      /\ p2 = e[2]
                      /\ edges = e[3]
                      /\ pc = "idle"
                      /\ err = "none"
    /\ path = <<>>
    /\ x = 0
    /\ y = 0
    /\ current_num_steps = 0
    /\ target_num_steps = 0
    /\ prob = 0
    /\ mode = "none"
    /\ fill_value = 1
    /\ ret = None
    /\ painted = <<>>
    /\ painter = "none"
    /\ paint_value = 0
    /\ num_paints = 0
    /\ np_draw = None
    /\ py_draw = 0
    /\ num_walks = 0
    /\ path_id = 1
    /\ lists = << <<>> >>
    /\ returned = <<>>

\* region = Location.generate();
\* locations = LocationStore(current=region, **{region.name: region})
locations_init ==
    /\ locations = {"region"}
    /\ current = "region"
    /\ children = [n \in LocationNames |-> <<>>]
    /\ tool_op = "none"
    /\ tool_arg = PyNone
    /\ tool_ret = PyNone
    /\ tool_err = "none"

\* log = AdventureLog(); log.add_entry(opening): the chat window is not
\* built yet
chat_init ==
    /\ log = << <<"opening", "default">> >>
    /\ chat_history = None
    /\ calls = <<>>
    /\ num_failed = 0

\* no generate call yet
generate_init ==
    /\ gen_pc = "idle"
    /\ gen_cls = "none"
    /\ gen_rarity_arg = PyNone
    /\ gen_rarity = PyNone
    /\ gen_attempt = 0
    /\ gen_llm_calls = 0
    /\ gen_rolls = 0
    /\ num_generates = 0

\* a walker whose construction returned, for a grid with at least one row
\* and one column and a valid exponent
Init ==
    /\ construct(1..MaxWidth, 1..MaxHeight, Exponents)
    /\ pc = "idle"
    /\ locations_init
    /\ chat_init
    /\ generate_init

\* any construction, also of a grid without rows or columns or with an
\* exponent distance() rejects
InitAnyConfiguration ==
    /\ construct(0..MaxWidth, 0..MaxHeight, Exponents \cup InvalidExponents)
    /\ locations_init
    /\ chat_init
    /\ generate_init

\* ---- walk() ---------------------------------------------------------------
\* lines 203-209: reset the path, start at p1, compute the step budget;
\* distance() raises ValueError for an exponent p <= 0
walk_start(fv) ==
    /\ num_walks' = num_walks + 1
    /\ fill_value' = fv
    /\ path_id' = new_path_object
    /\ path' = Append(reset_path, start_cell)
    /\ lists' = set_list(path_id', path')
    /\ x' = start_cell[1]
    /\ y' = start_cell[2]
    /\ current_num_steps' = 0
    /\ prob' = 0
    /\ mode' = "none"
    /\ np_draw' = None
    /\ py_draw' = 0
    /\ IF p <= 0
       THEN /\ pc' = "raised"
            /\ err' = "ValueError"
            /\ UNCHANGED target_num_steps
       ELSE /\ pc' = "walking"
            /\ target_num_steps' =
                   target_steps(p1, p2, p, target_distance_per_step)
            /\ UNCHANGED err
    /\ grid' = walk_grid(start_cell, fv)
    /\ UNCHANGED <<width, height, p1, p2, p, target_distance_per_step,
                   sampled, ret, world, painted, painter, paint_value,
                   num_paints, edges, returned>>
    /\ UNCHANGED <<location_vars, chat_vars, generate_vars>>

\* the first walk() of a walker
walk_begin(fv) ==
    /\ pc = "idle"
    /\ walk_start(fv)

\* walk() called again after an earlier call returned
walk_again(fv) ==
    /\ pc = "returned"
    /\ num_walks < MaxWalks
    /\ walk_start(fv)

\* one loop iteration whose draw came out 1: np.argmin raises ValueError on
\* an empty neighbour list
walk_step_decrease ==
    /\ pc = "walking"
    /\ loop_condition(x, y)
    /\ current_num_steps < MaxSteps
    /\ LET pr == prob_should_decrease_distance(target_num_steps,
                                               current_num_steps)
       IN  /\ pr > 0
           /\ prob' = pr
    /\ mode' = "decrease"
    /\ np_draw' = <<1, 0>>
    /\ py_draw' = 0
    /\ IF adjacent_cells(x, y) = <<>>
       THEN /\ pc' = "raised"
            /\ err' = "ValueError"
            /\ UNCHANGED <<x, y, path, current_num_steps, lists>>
       ELSE LET c == decrease_distance(x, y)
            IN  /\ x' = c[1]
                /\ y' = c[2]
                /\ path' = Append(path, c)
                /\ lists' = set_list(path_id, path')
                /\ current_num_steps' = current_num_steps + 1
                /\ UNCHANGED <<pc, err>>
    /\ grid' = IF pc' = "raised" THEN grid
               ELSE walk_grid(<<x', y'>>, fill_value)
    /\ UNCHANGED <<width, height, p1, p2, p, target_distance_per_step,
                   sampled, target_num_steps, fill_value, ret, world, painted,
                   painter, paint_value, num_paints, edges, num_walks,
                   path_id, returned>>
    /\ UNCHANGED <<location_vars, chat_vars, generate_vars>>

\* one loop iteration whose draw came out 0: random.choice raises IndexError
\* on an empty neighbour list
walk_step_increase ==
    /\ pc = "walking"
    /\ loop_condition(x, y)
    /\ current_num_steps < MaxSteps
    /\ LET pr == prob_should_decrease_distance(target_num_steps,
                                               current_num_steps)
       IN  /\ pr < target_num_steps
           /\ prob' = pr
    /\ mode' = "increase"
    /\ IF adjacent_cells(x, y) = <<>>
       THEN /\ pc' = "raised"
            /\ err' = "IndexError"
            /\ np_draw' = <<0, 0>>
            /\ py_draw' = 0
            /\ UNCHANGED <<x, y, path, current_num_steps, lists>>
       ELSE \E r \in increase_distance(x, y) :
                /\ x' = r[1][1]
                /\ y' = r[1][2]
                /\ np_draw' = <<0, r[2]>>
                /\ py_draw' = r[3]
                /\ path' = Append(path, r[1])
                /\ lists' = set_list(path_id, path')
                /\ current_num_steps' = current_num_steps + 1
                /\ UNCHANGED <<pc, err>>
    /\ grid' = IF pc' = "raised" THEN grid
               ELSE walk_grid(<<x', y'>>, fill_value)
    /\ UNCHANGED <<width, height, p1, p2, p, target_distance_per_step,
                   sampled, target_num_steps, fill_value, ret, world, painted,
                   painter, paint_value, num_paints, edges, num_walks,
                   path_id, returned>>
    /\ UNCHANGED <<location_vars, chat_vars, generate_vars>>

\* the loop condition is false: return self.path, the list object itself
walk_return ==
    /\ pc = "walking"
    /\ ~loop_condition(x, y)
    /\ pc' = "returned"
    /\ ret' = returned_path
    /\ returned' = Append(returned, <<path_id, returned_path>>)
    /\ UNCHANGED <<grid, width, height, p1, p2, p, target_distance_per_step,
                   path, sampled, x, y, current_num_steps, target_num_steps,
                   prob, mode, fill_value, err, world, painted, painter,
                   paint_value, num_paints, edges, np_draw, py_draw,
                   num_walks, path_id, lists>>
    /\ UNCHANGED <<location_vars, chat_vars, generate_vars>>

\* ---- painting --------------------------------------------------------------
InGrid(g, r, c) == r \in DOMAIN g /\ c \in DOMAIN g[r]

\* the points of pth before the first one add_to_grid cannot index
RECURSIVE paintable_prefix(_, _)
paintable_prefix(g, pth) ==
    IF pth = <<>> THEN <<>>
    ELSE IF InGrid(g, pth[1][1], pth[1][2])
         THEN <<pth[1]>> \o paintable_prefix(g, Tail(pth))
         ELSE <<>>

\* for x, y in path: self.grid[x, y] = 1
RECURSIVE add_to_grid_cells(_, _)
add_to_grid_cells(g, pth) ==
    IF pth = <<>> THEN g
    ELSE add_to_grid_cells(
             [g EXCEPT ![pth[1][1]][pth[1][2]] = 1], Tail(pth))

\* PathWalker.add_to_grid(path): the loop stops with IndexError at the first
\* point outside the array, the points before it stay painted
add_to_grid(pth) ==
    /\ pc = "returned"
    /\ num_paints < MaxPaints
    /\ num_paints' = num_paints + 1
    /\ painted' = pth
    /\ painter' = "add_to_grid"
    /\ paint_value' = fill_value
    /\ LET ok == paintable_prefix(grid, pth)
       IN  /\ grid' = add_to_grid_cells(grid, ok)
           /\ IF ok = pth
              THEN UNCHANGED <<pc, err>>
              ELSE /\ pc' = "raised"
                   /\ err' = "IndexError"
    /\ UNCHANGED <<width, height, p1, p2, p, target_distance_per_step, path,
                   sampled, x, y, current_num_steps, target_num_steps, prob,
                   mode, fill_value, ret, world, edges, np_draw, py_draw,
                   num_walks, path_id, lists, returned>>
    /\ UNCHANGED <<location_vars, chat_vars, generate_vars>>

\* grid.grid[self.ys, self.xs] = self.value
add_to_map_cells(g, xs, ys, value) ==
    [r \in DOMAIN g |-> [c \in DOMAIN g[r] |->
        IF \E i \in DOMAIN xs : ys[i] = r /\ xs[i] = c
        THEN value
        ELSE g[r][c]]]

\* MapItem(xs, ys, value).add_to_map(world) for the points of pth: the
\* indexed assignment raises IndexError, changing nothing, if an index is
\* outside the array
add_to_map(pth, value) ==
    /\ pc = "returned"
    /\ num_paints < MaxPaints
    /\ num_paints' = num_paints + 1
    /\ painted' = pth
    /\ painter' = "add_to_map"
    /\ paint_value' = value
    /\ LET xs == [i \in DOMAIN pth |-> pth[i][1]]
           ys == [i \in DOMAIN pth |-> pth[i][2]]
       IN  IF \A i \in DOMAIN pth : InGrid(world, ys[i], xs[i])
           THEN /\ world' = add_to_map_cells(world, xs, ys, value)
                /\ UNCHANGED <<pc, err>>
           ELSE /\ pc' = "raised"
                /\ err' = "IndexError"
                /\ UNCHANGED world
    /\ UNCHANGED <<grid, width, height, p1, p2, p, target_distance_per_step,
                   path, sampled, x, y, current_num_steps, target_num_steps,
                   prob, mode, fill_value, ret, edges, np_draw, py_draw,
                   num_walks, path_id, lists, returned>>
    /\ UNCHANGED <<location_vars, chat_vars, generate_vars>>

Next ==
    \/ \E fv \in FillValues : walk_begin(fv)
    \/ walk_step_decrease
    \/ walk_step_increase
    \/ walk_return
    \/ \E pth \in ExamplePaths \cup {path} : add_to_grid(pth)
    \/ \E pth \in ExamplePaths \cup {path}, value \in FillValues :
          add_to_map(pth, value)

Spec == Init /\ [][Next]_vars

\* a walker with the constructor's default exponent and step target, on a
\* square grid, starting in the corner (0, 0)
InitLifecycle ==
    /\ Init
    /\ p = 2
    /\ target_distance_per_step = <<3, 5>>
    /\ width = height
    /\ p1 = <<0, 0>>

\* the walker used again and again: walk(), painting the walker's own path
\* with add_to_grid(), and walk() after an earlier walk() returned
NextLifecycle ==
    \/ \E fv \in FillValues : walk_begin(fv)
    \/ walk_step_decrease
    \/ walk_step_increase
    \/ walk_return
    \/ add_to_grid(path)
    \/ \E fv \in FillValues : walk_again(fv)

SpecLifecycle == InitLifecycle /\ [][NextLifecycle]_vars

\* the operations on a walker of any configuration, valid or not
SpecAnyConfiguration == InitAnyConfiguration /\ [][Next]_vars

\* one walker, not used, beside the other notebooks
one_walker ==
    /\ construct({1}, {1}, {2})
    /\ ~sampled
    /\ p1 = <<0, 0>>
    /\ p2 = <<0, 0>>
    /\ target_distance_per_step = <<3, 5>>

\* ---- the location tools -----------------------------------------------------
NotFoundMessage == "Location is not found, please create the desired location."

\* the global name location, which no cell of the notebook binds
global_location == "unbound"

\* locations.keys()
store_keys == locations

\* locations.add(new_location)
store_add(name) == locations \cup {name}

\* location_name not in locations.keys(), negated
travel_to_found_always(location_name) == TRUE

travel_to_found(location_name) == location_name \in store_keys

\* the tool travel_to: the name location is looked up when
\* locations.set_current(location) is evaluated, and raises NameError
travel_to(location_name) ==
    /\ tool_op' = "travel_to"
    /\ tool_arg' = location_name
    /\ IF ~travel_to_found(location_name)
       THEN /\ tool_ret' = NotFoundMessage
            /\ tool_err' = "none"
            /\ UNCHANGED <<locations, current>>
       ELSE IF global_location = "unbound"
            THEN /\ tool_ret' = PyNone
                 /\ tool_err' = "NameError"
                 /\ UNCHANGED <<locations, current>>
            ELSE /\ current' = global_location
                 /\ tool_ret' = global_location
                 /\ tool_err' = "none"
                 /\ UNCHANGED locations
    /\ UNCHANGED children
    /\ UNCHANGED <<walker_vars, chat_vars, generate_vars>>

\* the tool create_location: the generated location is added to the store
\* and returned, the current location stays
create_location(location_name) ==
    /\ tool_op' = "create_location"
    /\ tool_arg' = location_name
    /\ locations' = store_add(location_name)
    /\ tool_ret' = location_name
    /\ tool_err' = "none"
    /\ UNCHANGED <<current, children>>
    /\ UNCHANGED <<walker_vars, chat_vars, generate_vars>>

\* locations.set_current(city), called by the notebook itself on a location
\* it has added
set_current(name) ==
    /\ name \in store_keys
    /\ tool_op' = "set_current"
    /\ tool_arg' = name
    /\ current' = name
    /\ tool_ret' = PyNone
    /\ tool_err' = "none"
    /\ UNCHANGED <<locations, children>>
    /\ UNCHANGED <<walker_vars, chat_vars, generate_vars>>

\* what Location.generate_child hands back: the method has no return
\* statement
generate_child_result(child) == PyNone

\* Location.generate_child on the location l, the program generating child
generate_child(l, child) ==
    /\ Len(children[l]) < MaxChildren
    /\ tool_op' = "generate_child"
    /\ tool_arg' = l
    /\ children' = [children EXCEPT ![l] = Append(@, child)]
    /\ tool_ret' = generate_child_result(child)
    /\ tool_err' = "none"
    /\ UNCHANGED <<locations, current>>
    /\ UNCHANGED <<walker_vars, chat_vars, generate_vars>>

InitLocations ==
    /\ one_walker
    /\ locations_init
    /\ chat_init
    /\ generate_init

NextLocations ==
    \/ \E n \in LocationNames : travel_to(n)
    \/ \E n \in LocationNames : create_location(n)
    \/ \E n \in LocationNames : set_current(n)
    \/ \E l, c \in LocationNames : generate_child(l, c)

SpecLocations == InitLocations /\ [][NextLocations]_vars

\* ---- the chat with the dungeon master ---------------------------------------
OpeningPrompt == "create an engaging opening"

\* log.add_entry(text, user=user)
add_entry(l, text, user) == Append(l, <<text, user>>)

\* the log after msg(message, user) returned response: the message is
\* entered before agent.chat runs, the response after it
log_after_msg_response_first(message, user, response) ==
    add_entry(add_entry(log, response, "dm"), message, user)

log_after_msg(message, user, response) ==
    add_entry(add_entry(log, message, user), response, "dm")

\* the log after agent.chat raised inside msg(message, user)
log_after_msg_raised(message, user) == add_entry(log, message, user)

\* chat_history.append((message, bot_message))
history_after_respond(message, bot_message) ==
    Append(chat_history, <<message, bot_message>>)

\* resp = msg(OpeningPrompt, 'dm'); chatbot = gr.Chatbot(value=[("", resp)])
open_chat(response) ==
    /\ chat_history = None
    /\ num_failed = 0
    /\ log' = log_after_msg(OpeningPrompt, "dm", response)
    /\ calls' = Append(calls, <<OpeningPrompt, "dm", response, "msg">>)
    /\ chat_history' = << <<"", response>> >>
    /\ UNCHANGED num_failed
    /\ UNCHANGED <<walker_vars, location_vars, generate_vars>>

\* the same cell when agent.chat raises: the window is not built
open_chat_raises ==
    /\ chat_history = None
    /\ num_failed = 0
    /\ log' = log_after_msg_raised(OpeningPrompt, "dm")
    /\ num_failed' = num_failed + 1
    /\ UNCHANGED <<calls, chat_history>>
    /\ UNCHANGED <<walker_vars, location_vars, generate_vars>>

\* msg(message, user) called directly, agent.chat returning response
msg(message, user, response) ==
    /\ chat_history # None
    /\ Len(calls) + num_failed <= MaxCalls
    /\ log' = log_after_msg(message, user, response)
    /\ calls' = Append(calls, <<message, user, response, "msg">>)
    /\ UNCHANGED <<chat_history, num_failed>>
    /\ UNCHANGED <<walker_vars, location_vars, generate_vars>>

\* msg(message, user) with agent.chat raising: the exception leaves msg
\* after the first add_entry
msg_raises(message, user) ==
    /\ chat_history # None
    /\ Len(calls) + num_failed <= MaxCalls
    /\ log' = log_after_msg_raised(message, user)
    /\ num_failed' = num_failed + 1
    /\ UNCHANGED <<chat_history, calls>>
    /\ UNCHANGED <<walker_vars, location_vars, generate_vars>>

\* respond(message, chat_history), submitted from the chat window: msg with
\* the default user 'player', then the pair is appended
respond(message, response) ==
    /\ chat_history # None
    /\ Len(calls) + num_failed <= MaxCalls
    /\ log' = log_after_msg(message, "player", response)
    /\ calls' = Append(calls, <<message, "player", response, "respond">>)
    /\ chat_history' = history_after_respond(message, response)
    /\ UNCHANGED num_failed
    /\ UNCHANGED <<walker_vars, location_vars, generate_vars>>

\* respond when agent.chat raises: nothing is appended to chat_history
respond_raises(message) ==
    /\ chat_history # None
    /\ Len(calls) + num_failed <= MaxCalls
    /\ log' = log_after_msg_raised(message, "player")
    /\ num_failed' = num_failed + 1
    /\ UNCHANGED <<chat_history, calls>>
    /\ UNCHANGED <<walker_vars, location_vars, generate_vars>>

InitChat ==
    /\ one_walker
    /\ locations_init
    /\ chat_init
    /\ generate_init

NextChat ==
    \/ \E r \in Responses : open_chat(r)
    \/ open_chat_raises
    \/ \E m \in Messages, u \in Users, r \in Responses : msg(m, u, r)
    \/ \E m \in Messages, u \in Users : msg_raises(m, u)
    \/ \E m \in Messages, r \in Responses : respond(m, r)
    \/ \E m \in Messages : respond_raises(m)

SpecChat == InitChat /\ [][NextChat]_vars

\* ---- Item.generate, Weapon.generate, RangeWeapon.generate -------------------
\* parse_rarity, the description shortened to its first word
parse_rarity(rarity) ==
    IF rarity <= 8 THEN "Common"
    ELSE IF rarity <= 15 THEN "Uncommon"
    ELSE IF rarity <= 19 THEN "Rare"
    ELSE "Legendary"

Rarities == { parse_rarity(r) : r \in DiceRolls }

\* @retry(stop=stop_after_attempt(n)) on the generate of each class
stop_after_attempt_one_more(cls) == IF cls = "RangeWeapon" THEN 10 ELSE 4

stop_after_attempt(cls) == IF cls = "RangeWeapon" THEN 9 ELSE 3

\* cls.generate(rarity=rarity) is called: tenacity starts its attempts
generate_call(cls, rarity) ==
    /\ gen_pc # "running"
    /\ num_generates < MaxGenerates
    /\ num_generates' = num_generates + 1
    /\ gen_pc' = "running"
    /\ gen_cls' = cls
    /\ gen_rarity_arg' = rarity
    /\ gen_rarity' = PyNone
    /\ gen_attempt' = 0
    /\ gen_llm_calls' = 0
    /\ gen_rolls' = 0
    /\ UNCHANGED <<walker_vars, location_vars, chat_vars>>

\* the body of generate up to the call of the program, run once per attempt
\* with the arguments of the call: the dice are rolled if rarity is None
attempt_body(roll) ==
    /\ gen_pc = "running"
    /\ gen_attempt' = gen_attempt + 1
    /\ IF gen_rarity_arg = PyNone
       THEN /\ gen_rolls' = gen_rolls + 1
            /\ gen_rarity' = parse_rarity(roll)
       ELSE /\ gen_rolls' = gen_rolls
            /\ gen_rarity' = gen_rarity_arg
    /\ gen_llm_calls' = gen_llm_calls + 1
    /\ UNCHANGED <<gen_cls, gen_rarity_arg, num_generates>>
    /\ UNCHANGED <<walker_vars, location_vars, chat_vars>>

\* an attempt whose program call returns an object: generate returns it
attempt_succeeds(roll) ==
    /\ attempt_body(roll)
    /\ gen_pc' = "returned"

\* an attempt whose program call raises: tenacity tries again, or raises
\* RetryError after the last attempt
attempt_fails(roll) ==
    /\ attempt_body(roll)
    /\ gen_pc' = IF gen_attempt' >= stop_after_attempt(gen_cls)
                 THEN "raised"
                 ELSE "running"

InitGenerate ==
    /\ one_walker
    /\ locations_init
    /\ chat_init
    /\ generate_init

NextGenerate ==
    \/ \E cls \in ItemClasses, r \in Rarities \cup {PyNone} :
           generate_call(cls, r)
    \/ \E roll \in DiceRolls : attempt_succeeds(roll)
    \/ \E roll \in DiceRolls : attempt_fails(roll)

SpecGenerate == InitGenerate /\ [][NextGenerate]_vars

\* ---- properties -----------------------------------------------------------
InBounds(c) == 0 <= c[1] /\ c[1] < width /\ 0 <= c[2] /\ c[2] < height

Last(s) == s[Len(s)]

\* C1: the last point of every path walk() returns is within Minkowski
\* distance 1 (exponent p) of the end point p2: |dx|^p + |dy|^p <= 1.
C1_ReturnedPathEndsWithinOne ==
    ret # None =>
        Pow(Abs(Last(ret)[1] - p2[1]), p) + Pow(Abs(Last(ret)[2] - p2[2]), p)
            <= 1

C1_Witness ==
    /\ pc = "returned"
    /\ Len(ret) >= 3
    /\ Last(ret) # p2

\* C2: on every grid shape, two consecutive points of the path differ by
\* exactly one unit in exactly one axis, at every moment of the walk and in
\* the returned path.
C2_StepsAreFourConnected ==
    \A i \in 1..(Len(path) - 1) :
        \/ /\ Abs(path[i + 1][1] - path[i][1]) = 1
           /\ path[i + 1][2] = path[i][2]
        \/ /\ path[i + 1][1] = path[i][1]
           /\ Abs(path[i + 1][2] - path[i][2]) = 1

C2_Witness ==
    /\ pc = "returned"
    /\ ret = path
    /\ Len(path) >= 4
    /\ width # height
    /\ \E i \in 1..(Len(path) - 1) : path[i + 1][1] # path[i][1]
    /\ \E i \in 1..(Len(path) - 1) : path[i + 1][2] # path[i][2]

\* C3: when the start point p1 lies inside the grid, every point of the path
\* satisfies 0 <= x < width and 0 <= y < height at every moment of the walk.
C3_PathStaysInGrid ==
    InBounds(p1) => \A i \in DOMAIN path : InBounds(path[i])

C3_Witness ==
    /\ InBounds(p1)
    /\ width # height
    /\ Len(path) >= 4
    /\ mode = "increase"
    /\ \E i \in DOMAIN path : path[i][1] = width - 1
    /\ \E i \in DOMAIN path : path[i][2] = height - 1

\* C4: the first point of the path walk() builds and returns is the walker's
\* start point p1, supplied or sampled.
C4_PathStartsAtStart ==
    /\ path # <<>> => path[1] = p1
    /\ ret # None => ret[1] = p1

C4_Witness ==
    /\ pc = "returned"
    /\ sampled
    /\ Len(ret) >= 2
    /\ p1 # <<0, 0>>

\* C5: when start = end, walk() takes no step, draws no mode, raises nothing
\* and returns the one-point path <<start>>.
C5_DegenerateWalk ==
    (p1 = p2 /\ pc # "idle") =>
        /\ path = <<p1>>
        /\ current_num_steps = 0
        /\ mode = "none"
        /\ pc = "walking" => ENABLED walk_return
        /\ pc = "raised" => painter # "none"
        /\ pc # "walking" => ret = <<p1>>

C5_Witness ==
    /\ p1 = p2
    /\ pc = "returned"
    /\ ret = <<p1>>
    /\ num_paints = 0


\* a loop iteration of walk(): it draws the mode and either appends a cell
\* or raises
Iteration == pc = "walking" /\ pc' # "returned"

DecreaseStep ==
    /\ pc = "walking"
    /\ mode' = "decrease"
    /\ current_num_steps' = current_num_steps + 1

IncreaseStep ==
    /\ pc = "walking"
    /\ mode' = "increase"
    /\ current_num_steps' = current_num_steps + 1

\* the four neighbours in the fixed order left, right, up, down
NeighbourOrder(cx, cy) ==
    << <<cx - 1, cy>>, <<cx + 1, cy>>, <<cx, cy - 1>>, <<cx, cy + 1>> >>

\* C6: P(decrease) is non-decreasing in the number of steps taken and is 1
\* once steps_taken >= target_steps.  (The claim as stated; the code's
\* probability falls from 1 to 0 instead.)
C6_ProbabilityRisesWithSteps ==
    [][ (Iteration /\ pc' = "walking") =>
            /\ mode # "none" => prob' >= prob
            /\ current_num_steps >= target_num_steps =>
                   prob' = target_num_steps ]_vars

Farther(cx, cy) ==
    { c \in Range(NeighbourOrder(cx, cy)) :
        InBounds(c) /\ distance(c, p2, p) > distance(<<cx, cy>>, p2, p) }

C9_FallbackReached ==
    /\ pc = "walking"
    /\ mode = "increase"
    /\ Len(path) >= 2
    /\ InBounds(path[Len(path) - 1])
    /\ Farther(path[Len(path) - 1][1], path[Len(path) - 1][2]) = {}

\* C10: after a path is painted, the cell at row y, column x holds the
\* requested fill value for every point (x, y) of the path; painting
\* [(0,0),(1,0),(1,1)] with 2 onto a zero 2x2 grid gives [[2,2],[0,2]].
C10_PaintSetsRowYColumnX ==
    (painter # "none" /\ err = "none") =>
        LET target == IF painter = "add_to_grid" THEN grid ELSE world
        IN  /\ \A i \in DOMAIN painted :
                  /\ InGrid(target, painted[i][2], painted[i][1])
                  /\ target[painted[i][2]][painted[i][1]] = paint_value
            /\ ( /\ painted = << <<0, 0>>, <<1, 0>>, <<1, 1>> >>
                 /\ paint_value = 2
                 /\ width = 2
                 /\ height = 2 ) =>
                   target = [r \in 0..1 |-> [c \in 0..1 |->
                                IF r = 1 /\ c = 0 THEN 0 ELSE 2]]

\* C11: painting a path walk() returned, all of whose points are inside the
\* grid, onto the walker's own grid with add_to_grid never raises an index
\* error, whatever the shape of the grid (height # width included).
C11_PaintingOwnPathStaysInside ==
    ( /\ painter = "add_to_grid"
      /\ ret # None
      /\ painted = ret
      /\ \A i \in DOMAIN ret : InBounds(ret[i]) ) => err = "none"

\* the edge a point was drawn for: 1 left, 2 bottom, 3 right, 4 top
OnEdge(c, e) ==
    \/ e = 1 /\ c[1] = 0
    \/ e = 2 /\ c[2] = 0
    \/ e = 3 /\ c[1] = width - 1
    \/ e = 4 /\ c[2] = height - 1

\* what the sampling returns when it returns: two points in the grid, each on
\* the edge it was drawn for, and the two edges different
SampledOnTwoEdges ==
    (sampled /\ edges # None) =>
        /\ edges[1] # edges[2]
        /\ OnEdge(p1, edges[1]) /\ InBounds(p1)
        /\ OnEdge(p2, edges[2]) /\ InBounds(p2)

\* C12: for every grid of at least one row and one column,
\* random_edge_points(width, height) returns two points: both inside the
\* grid, each on the edge it was drawn for (left x = 0, bottom y = 0, right
\* x = width-1, top y = height-1), and the two edges different.
C12_SamplingReturnsTwoEdgePoints ==
    (sampled /\ width >= 1 /\ height >= 1) =>
        /\ edges # None
        /\ SampledOnTwoEdges

\* C13: on a grid with width >= 2 and height >= 2 the two sampled endpoints
\* are different cells.
C13_SampledEndpointsDistinct ==
    (sampled /\ edges # None /\ width >= 2 /\ height >= 2) => p1 # p2

\* the draws walk() can take from numpy's generator in one iteration: the
\* binomial draw, and the position np.random.choice picked if it was called
NumpyDraws == {<<1, 0>>} \cup { <<0, i>> : i \in 0..4 }

\* the four neighbours of the current cell, in the grid or not
Neighbours ==
    { <<x - 1, y>>, <<x + 1, y>>, <<x, y - 1>>, <<x, y + 1>> }

\* C14: the path is a function of the parameters and of the draws of one
\* seeded random source: in every iteration of walk(), the draw taken from
\* numpy's generator leaves at most one cell the walker can move to.
C14_StepDeterminedBySeededDraw ==
    (pc = "walking" /\ loop_condition(x, y)) =>
        \A d \in NumpyDraws :
            Cardinality({ c \in Neighbours :
                ENABLED ( /\ walk_step_decrease \/ walk_step_increase
                          /\ np_draw' = d
                          /\ x' = c[1]
                          /\ y' = c[2] ) }) <= 1

\* C15: across any sequence of walk() calls the end points p1 and p2 stay as
\* constructed, every walk() starts its path anew with p1 alone, and the path
\* holds the start and one point per step of the current walk, nothing else.
C15_PathHoldsMostRecentWalk ==
    [][ /\ p1' = p1
        /\ p2' = p2
        /\ (num_walks' = num_walks + 1 => path' = <<p1>>)
        /\ (path' # <<>> =>
              /\ path'[1] = p1
              /\ Len(path') = current_num_steps' + 1) ]_vars

\* a second walk has returned a path shorter than, and different from, the
\* path the first walk returned
C15_Witness ==
    /\ num_walks = 2
    /\ pc = "returned"
    /\ Len(returned) = 2
    /\ path = returned[2][2]
    /\ Len(returned[1][2]) > Len(path)
    /\ Len(path) >= 2

\* C16: every path walk() has returned still has exactly the points it had
\* when it was returned, whatever walk() and add_to_grid() calls followed.
C16_ReturnedPathsUnchanged ==
    \A i \in DOMAIN returned :
        /\ returned[i][1] \in DOMAIN lists
        /\ lists[returned[i][1]] = returned[i][2]

\* two walks have returned different paths and the walker's path was painted
C16_Witness ==
    /\ Len(returned) = 2
    /\ returned[1][2] # returned[2][2]
    /\ painter = "add_to_grid"
    /\ num_paints >= 1

\* C17: a walker whose grid has zero width or zero height, or whose exponent
\* p is <= 0, does not exist: its construction raised, and no walk() was
\* started on it.
C17_InvalidConfigurationFailsAtConstruction ==
    (width = 0 \/ height = 0 \/ p <= 0) =>
        /\ pc = "raised"
        /\ num_walks = 0

\* the largest number of steps a walk within the bounds could be allowed
StepCeiling == MaxSteps - 1

\* C18: there is a step ceiling: a walk that has taken that many steps and is
\* still farther than 1 from the end point takes no further step, and it
\* ends in a failure.
C18_WalkStopsAtCeiling ==
    ( /\ pc = "walking"
      /\ loop_condition(x, y)
      /\ current_num_steps >= StepCeiling ) =>
        /\ ~ENABLED (walk_step_decrease \/ walk_step_increase)
        /\ err # "none"

\* C19: whenever the loop of walk() is about to evaluate
\* (target_num_steps - current_num_steps) / target_num_steps, the divisor
\* target_num_steps is >= 1; a walk whose target_num_steps is 0 has
\* coinciding end points and never evaluated the formula.
C19_DivisorAtLeastOne ==
    /\ (pc = "walking" /\ loop_condition(x, y)) => target_num_steps >= 1
    /\ (pc \in {"walking", "returned"} /\ target_num_steps = 0) =>
           /\ p1 = p2
           /\ mode = "none"
           /\ np_draw = None

\* the formula has been evaluated with the smallest divisor, 1, after the
\* budget of one step was used up
C19_Witness ==
    /\ pc = "walking"
    /\ target_num_steps = 1
    /\ current_num_steps = 2
    /\ mode = "increase"

\* the cells of a 10 x 10 grid within distance 1 of (9, 9) for p = 2
ScenarioEnds ==
    { c \in (0..9) \X (0..9) : distance(c, <<9, 9>>, 2) <= 1 }

RECURSIVE increase_closure(_)
increase_closure(S) ==
    LET going == { c \in S : loop_condition(c[1], c[2]) }
        N == S \cup UNION { { r[1] : r \in increase_distance(c[1], c[2]) } :
                              c \in going }
    IN  IF N = S THEN S ELSE increase_closure(N)

\* C22: with start and end inside the grid and p = 2, the walk never reaches
\* a state from which coming within distance 1 of the end is impossible: once
\* the step budget is used up (only increase-mode steps remain), some cell
\* the walker can still come to is within distance 1 of the end.
C22_WalkCanAlwaysReturn ==
    ( /\ pc = "walking"
      /\ InBounds(p1) /\ InBounds(p2)
      /\ p = 2
      /\ loop_condition(x, y)
      /\ current_num_steps >= target_num_steps ) =>
        \E c \in increase_closure({<<x, y>>}) : ~loop_condition(c[1], c[2])

C24_DecreaseStepGetsCloser ==
    [][ (DecreaseStep /\ InBounds(p2)) =>
            self_distance(<<x', y'>>) < self_distance(<<x, y>>) ]_vars

\* a decrease-mode step, not the first step of the walk, has left a cell that
\* also had a neighbour farther from the end
C24_Witness ==
    /\ pc = "walking"
    /\ mode = "decrease"
    /\ InBounds(p2)
    /\ current_num_steps >= 2
    /\ LET from == path[Len(path) - 1]
       IN  /\ self_distance(<<x, y>>) < self_distance(from)
           /\ \E c \in Range(adjacent_cells(from[1], from[2])) :
                  self_distance(c) > self_distance(from)

\* C25: the grid changes only in an add_to_grid() call made after a walk
\* returned; walk() leaves every cell as it was, whatever its fill_value.
C25_OnlyAddToGridChangesGrid ==
    [][ grid' # grid =>
            /\ pc = "returned"
            /\ painter' = "add_to_grid"
            /\ num_paints' = num_paints + 1
            /\ num_walks' = num_walks ]_vars

\* a second walk with fill_value 2 is under way on a grid that holds the
\* cells add_to_grid painted after the first walk, and no cell holds 2
C25_Witness ==
    /\ num_walks = 2
    /\ pc = "walking"
    /\ current_num_steps >= 1
    /\ fill_value = 2
    /\ num_paints = 1
    /\ grid # ZeroGrid(width, height)
    /\ \A r \in DOMAIN grid : \A c \in DOMAIN grid[r] : grid[r][c] # 2

\* C21: travel_to called with a name that is a key of the store sets the
\* current location to the location of that name and returns it.
C21_TravelToKnownLocation ==
    [][ (tool_op' = "travel_to" /\ tool_arg' \in locations) =>
            /\ tool_err' = "none"
            /\ current' = tool_arg'
            /\ tool_ret' = tool_arg' ]_vars

\* C26: travel_to called with a name that is not a key of the store returns
\* the not-found message and leaves the current location and the set of
\* locations as they were.
C26_TravelToUnknownLocation ==
    [][ (tool_op' = "travel_to" /\ tool_arg' \notin locations) =>
            /\ tool_ret' = NotFoundMessage
            /\ tool_err' = "none"
            /\ current' = current
            /\ locations' = locations ]_vars

\* travel_to has been refused for a name while the store held two locations
\* and the current one was not the first
C26_Witness ==
    /\ tool_op = "travel_to"
    /\ tool_arg \notin locations
    /\ tool_ret = NotFoundMessage
    /\ Cardinality(locations) = 2
    /\ current # "region"

\* C28: generate_child on a location appends one new location as the last
\* element of its children and returns that child.
C28_GenerateChildReturnsChild ==
    [][ tool_op' = "generate_child" =>
            LET l == tool_arg'
            IN  /\ Len(children'[l]) = Len(children[l]) + 1
                /\ tool_ret' = children'[l][Len(children'[l])]
                /\ tool_ret' \in LocationNames ]_vars

\* the (message, response) pairs of the calls made through respond()
RECURSIVE respond_pairs(_)
respond_pairs(cs) ==
    IF cs = <<>> THEN <<>>
    ELSE (IF cs[1][4] = "respond" THEN << <<cs[1][1], cs[1][3]>> >> ELSE <<>>)
         \o respond_pairs(Tail(cs))

\* C27: as long as no call has failed, after n msg() calls (those made by
\* respond() included) the log holds the opening entry and then, for the i-th
\* call, the message tagged with its user at position 2i and the response
\* tagged 'dm' at position 2i+1; and chat_history holds, after its first
\* pair, exactly one (message, response) pair per respond() call, in call
\* order.
C27_LogAlternatesInCallOrder ==
    /\ num_failed = 0 =>
          /\ Len(log) = 1 + 2 * Len(calls)
          /\ \A i \in DOMAIN calls :
                /\ log[2 * i] = <<calls[i][1], calls[i][2]>>
                /\ log[2 * i + 1] = <<calls[i][3], "dm">>
    /\ chat_history # None =>
          /\ Len(chat_history) >= 1
          /\ Tail(chat_history) = respond_pairs(calls)

\* after the opening, a direct msg() call by the dm and a respond() call
\* with another message and another response have returned
C27_Witness ==
    /\ num_failed = 0
    /\ Len(calls) = 3
    /\ calls[2][4] = "msg" /\ calls[2][2] = "dm"
    /\ calls[3][4] = "respond"
    /\ calls[2][1] # calls[3][1]
    /\ calls[2][3] # calls[3][3]
    /\ Len(chat_history) = 2

\* the number of attempts the claim allows a call on the class
AllowedAttempts == IF gen_cls = "RangeWeapon" THEN 9 ELSE 3

\* C29: one generate call runs the program at most 3 times (RangeWeapon: 9),
\* once per attempt; it rolls the rarity in every attempt when none was
\* supplied and never otherwise; after an attempt succeeded no further
\* attempt is made; and it raises only when the last allowed attempt failed.
C29_GenerateRetriesAtMostThreeTimes ==
    /\ gen_llm_calls <= AllowedAttempts
    /\ gen_llm_calls = gen_attempt
    /\ gen_rarity_arg = PyNone => gen_rolls = gen_attempt
    /\ gen_rarity_arg # PyNone =>
          /\ gen_rolls = 0
          /\ gen_attempt > 0 => gen_rarity = gen_rarity_arg
    /\ gen_pc = "running" => gen_attempt < AllowedAttempts
    /\ gen_pc = "raised" => gen_attempt = AllowedAttempts
    /\ gen_pc = "returned" =>
          /\ gen_attempt >= 1
          /\ ~ENABLED (\E roll \in DiceRolls :
                          attempt_succeeds(roll) \/ attempt_fails(roll))

\* Weapon.generate without a rarity has returned from its third attempt,
\* having rolled the dice three times
C29_Witness ==
    /\ gen_pc = "returned"
    /\ gen_cls = "Weapon"
    /\ gen_rarity_arg = PyNone
    /\ gen_attempt = 3
    /\ gen_rolls = 3
    /\ gen_llm_calls = 3

====
